---- MODULE Spec2Model ----
(***************************************************************************)
(* Model of the two components of the repository:                          *)
(*   - ManageAccessPanel (src/components/manage-access-panel.tsx), the     *)
(*     user x page access matrix with its toggle handler and user filter;  *)
(*   - LivePageEditor (src/components/live-page-editor.tsx), the page      *)
(*     canvas with its component list and the auto-save effect.            *)
(* Strings that the code inspects character by character (names, search    *)
(* text) are sequences of one-character strings.                           *)
(***************************************************************************)
EXTENDS Integers, Sequences, FiniteSets, TLC

VARIABLES
    \* ---- ManageAccessPanel -------------------------------------------
    isOpen,        \* the isOpen prop
    users,         \* useState<User[]>
    pages,         \* useState<Page[]>
    searchTerm,    \* useState("")
    filterRole,    \* useState("all")
    loading,       \* useState(false)
    directory,     \* the user directory kept by lib/auth (getAllUsers / assignPagesToUser)
    effects,       \* calls made by the last cell click or panel opening, in call order
    before,        \* history: the toggled user's assignedPages before the last toggle
    failures,      \* history: number of assignPagesToUser calls that returned a failure result
    prior,         \* history: how the last toggle's cell relates to the toggle right before it
    openedUsers,   \* history: the admin and developer users as loaded when the panel was opened
    assignedIds,   \* history: user ids ever passed to assignPagesToUser
    \* ---- LivePageEditor ----------------------------------------------
    page,          \* the page prop
    components,    \* useState<PageComponent[]>
    selectedComponent, \* useState<string | null>
    isPreviewMode, \* useState(false)
    saveStatus,    \* useState("saved"), as last rendered
    savingQueued,  \* the effect's setSaveStatus("saving") awaits its re-render
    timer,         \* the setTimeout of the auto-save effect: "none", "armed" or "due"
    effectDue,     \* a render whose [components, saveStatus] changed awaits its effect pass
    now,           \* Date.now()
    audit,         \* the logActivity records of the last handler that ran
    lastOp,        \* history: the last addComponent / updateComponent / deleteComponent call
    mutations,     \* history: number of add/update/delete calls so far
    armedStale,    \* history: a mutation was applied after the pending timer was armed
    savedStale,    \* history: armedStale of the timer whose handleAutoSave ran last
    quiet          \* history: the debounce delay has passed since the last add/update/delete

panelVars == <<isOpen, users, pages, searchTerm, filterRole, loading,
               directory, effects, before, failures, prior, openedUsers, assignedIds>>
canvasVars == <<page, components, selectedComponent, isPreviewMode,
                saveStatus, savingQueued, timer, effectDue, now, audit, lastOp,
                mutations, armedStale, savedStale, quiet>>
vars == <<panelVars, canvasVars>>

(***************************************************************************)
(* Generic helpers                                                         *)
(***************************************************************************)
Range(s) == {s[i] : i \in 1..Len(s)}

RECURSIVE FilterSeq(_, _)
\* Array.prototype.filter, the predicate given as the set `keep` of the
\* indices it accepts: the accepted elements, in their order in s
FilterSeq(s, keep) ==
    IF s = <<>> THEN <<>>
    ELSE LET rest == FilterSeq(Tail(s), {i - 1 : i \in keep \ {1}})
         IN  IF 1 \in keep THEN <<Head(s)>> \o rest ELSE rest

(***************************************************************************)
(* Strings                                                                 *)
(***************************************************************************)
\* String.prototype.toLowerCase on one character of the alphabet in use
LowerChar(c) ==
    IF c = "A" THEN "a"
    ELSE IF c = "B" THEN "b"
    ELSE IF c = "N" THEN "n"
    ELSE IF c = "O" THEN "o"
    ELSE c

toLowerCase(s) == [i \in 1..Len(s) |-> LowerChar(s[i])]

\* String.prototype.includes
includes(s, t) ==
    \E i \in 0..(Len(s) - Len(t)) : SubSeq(s, i + 1, i + Len(t)) = t

(***************************************************************************)
(* Data of the access panel                                                *)
(***************************************************************************)
Roles == {"user", "admin", "developer"}
PageIds == {"p1", "p2"}

\* user.assignedPages is optional: Undefined models an absent field
Undefined == [defined |-> FALSE, ids |-> <<>>]
Some(ids) == [defined |-> TRUE, ids |-> ids]

User(id, name, username, role, assignedPages) ==
    [id |-> id, name |-> name, username |-> username, role |-> role,
     assignedPages |-> assignedPages]

\* the page list returned by getAllPages
AllPages == <<[id |-> "p1", type |-> "html"], [id |-> "p2", type |-> "powerbi"]>>

\* the two users of the directory: "Ann" / "bo" and "Bob" / "AN"
U1(role, assignedPages) ==
    User("u1", <<"A", "n", "n">>, <<"b", "o">>, role, assignedPages)
U2(role, assignedPages) ==
    User("u2", <<"B", "o", "b">>, <<"A", "N">>, role, assignedPages)

\* the directories the model starts from (ids are unique, as identities are):
\* every role, with the assigned list absent, empty, plain and with a page
\* listed twice
Directories ==
    { <<U1("user", Undefined), U2("developer", Some(<<"p2">>))>>,
      <<U1("user", Some(<<"p1", "p2", "p1">>)), U2("user", Undefined)>>,
      <<U1("admin", Some(<<>>)), U2("user", Some(<<"p1">>))>>,
      <<U1("developer", Undefined), U2("user", Some(<<"p2">>))>> }

\* ids a toggle can be asked for: the directory's and one that is not listed
UserIds == {"u1", "u2", "u9"}

\* search texts typed into the search box
SearchTexts ==
    {<<>>, <<"A", "N">>, <<"o", "B">>}

\* the external call may return a failure result at most this many times in a run
MaxFailures == 1

FilterRoles == {"all"} \cup Roles

Outcomes == {"success", "failure", "throw"}

(***************************************************************************)
(* lib/auth, the external directory service                                *)
(***************************************************************************)
\* getAllUsers(): a snapshot of the directory
getAllUsers(dir) == dir

\* getAllPages()
getAllPages == AllPages

\* assignPagesToUser(userId, pageIds): on success the user's whole assigned
\* list is replaced; a failure result or an exception leaves the directory
\* as it was
assignPagesToUser(dir, userId, pageIds, outcome) ==
    IF outcome = "success"
    THEN [k \in 1..Len(dir) |->
             IF dir[k].id = userId
             THEN [dir[k] EXCEPT !.assignedPages = Some(pageIds)]
             ELSE dir[k]]
    ELSE dir

(***************************************************************************)
(* ManageAccessPanel: derived values                                       *)
(***************************************************************************)
\* users.find(u => u.id === userId): index of the first match, 0 for undefined
find(us, userId) ==
    IF \E k \in 1..Len(us) : us[k].id = userId
    THEN CHOOSE k \in 1..Len(us) :
            /\ us[k].id = userId
            /\ \A j \in 1..(k - 1) : us[j].id # userId
    ELSE 0

\* variant: the search text is compared as typed
matchesSearch_CaseSensitive(user, term) ==
    \/ includes(toLowerCase(user.name), term)
    \/ includes(toLowerCase(user.username), term)

matchesSearch(user, term) ==
    \/ includes(toLowerCase(user.name), toLowerCase(term))
    \/ includes(toLowerCase(user.username), toLowerCase(term))

matchesRole(user, role) == role = "all" \/ user.role = role

filterUsers(us, term, role) ==
    FilterSeq(us, {k \in 1..Len(us) :
                     matchesSearch(us[k], term) /\ matchesRole(us[k], role)})

filteredUsers == filterUsers(users, searchTerm, filterRole)

\* variant: only the admin role is granted every page
getUserPageAccess_AdminOnly(us, userId, pageId) ==
    LET k == find(us, userId) IN
    IF k = 0 THEN FALSE
    ELSE IF us[k].role = "admin" THEN TRUE
    ELSE IF us[k].assignedPages.defined
         THEN pageId \in Range(us[k].assignedPages.ids)
         ELSE FALSE

getUserPageAccess(us, userId, pageId) ==
    LET k == find(us, userId) IN
    IF k = 0 THEN FALSE
    ELSE IF us[k].role = "admin" \/ us[k].role = "developer" THEN TRUE
    ELSE IF us[k].assignedPages.defined
         THEN pageId \in Range(us[k].assignedPages.ids)
         ELSE FALSE

\* variant: only admin rows are disabled
isDisabled_AdminOnly(user) == user.role = "admin"

\* isDisabled of a row's cell buttons
isDisabled(user) == user.role = "admin" \/ user.role = "developer"

\* the admin and developer rows of a listing
privileged(us) ==
    FilterSeq(us, {k \in 1..Len(us) : us[k].role \in {"admin", "developer"}})

(***************************************************************************)
(* ManageAccessPanel: handleToggleAccess                                   *)
(***************************************************************************)
\* variant: the stored list is ignored
currentPages_Empty(user) == <<>>

\* user.assignedPages || []
currentPages(user) ==
    IF user.assignedPages.defined THEN user.assignedPages.ids ELSE <<>>

\* variant: only the first occurrence of the page is removed
newPages_RemoveFirst(cur, pageId) ==
    IF pageId \in Range(cur)
    THEN LET f == CHOOSE k \in 1..Len(cur) :
                    cur[k] = pageId /\ \A j \in 1..(k - 1) : cur[j] # pageId
         IN  FilterSeq(cur, (1..Len(cur)) \ {f})
    ELSE Append(cur, pageId)

\* variant: a granted page is put in front
newPages_Prepend(cur, pageId) ==
    IF pageId \in Range(cur)
    THEN FilterSeq(cur, {k \in 1..Len(cur) : cur[k] # pageId})
    ELSE <<pageId>> \o cur

\* hasAccess ? currentPages.filter(id => id !== pageId) : [...currentPages, pageId]
newPages(cur, pageId) ==
    IF pageId \in Range(cur)
    THEN FilterSeq(cur, {k \in 1..Len(cur) : cur[k] # pageId})
    ELSE Append(cur, pageId)

\* one call made by a handler
Call(op, user, ids, flag) == [op |-> op, user |-> user, ids |-> ids, flag |-> flag]
SetLoading(flag) == Call("setLoading", "", <<>>, flag)
\* flag of an assignPagesToUser call: whether the call threw
Assign(userId, ids, threw) == Call("assignPagesToUser", userId, ids, threw)
Invoke(userId, pageId) == Call("handleToggleAccess", userId, <<pageId>>, FALSE)
GetAllUsers == Call("getAllUsers", "", <<>>, FALSE)
GetAllPages == Call("getAllPages", "", <<>>, FALSE)
SetUsers(userId, ids) == Call("setUsers", userId, ids, FALSE)
OnSuccess == Call("onSuccess", "", <<>>, FALSE)
ConsoleError == Call("console.error", "", <<>>, FALSE)

\* variant: onSuccess is signalled before the external call
handleToggleAccess_NotifyFirst(us, userId, pageId, outcome) ==
    LET k == find(us, userId) IN
    IF k = 0
    THEN <<Invoke(userId, pageId), SetLoading(TRUE), SetLoading(FALSE)>>
    ELSE LET np == newPages(currentPages(us[k]), pageId) IN
         IF outcome = "throw"
         THEN <<Invoke(userId, pageId), SetLoading(TRUE), OnSuccess,
                Assign(userId, np, TRUE), ConsoleError, SetLoading(FALSE)>>
         ELSE <<Invoke(userId, pageId), SetLoading(TRUE), OnSuccess,
                Assign(userId, np, FALSE), SetUsers(userId, np),
                SetLoading(FALSE)>>

\* variant: the early return for an unlisted user skips setLoading(false)
handleToggleAccess_NoFinally(us, userId, pageId, outcome) ==
    LET k == find(us, userId) IN
    IF k = 0
    THEN <<Invoke(userId, pageId), SetLoading(TRUE)>>
    ELSE LET np == newPages(currentPages(us[k]), pageId) IN
         IF outcome = "throw"
         THEN <<Invoke(userId, pageId), SetLoading(TRUE),
                Assign(userId, np, TRUE), ConsoleError, SetLoading(FALSE)>>
         ELSE <<Invoke(userId, pageId), SetLoading(TRUE),
                Assign(userId, np, FALSE), SetUsers(userId, np), OnSuccess,
                SetLoading(FALSE)>>

\* the calls handleToggleAccess(userId, pageId) makes, in order, when the
\* closure holds `us` and assignPagesToUser ends with `outcome`
handleToggleAccess(us, userId, pageId, outcome) ==
    LET k == find(us, userId) IN
    IF k = 0
    THEN <<Invoke(userId, pageId), SetLoading(TRUE), SetLoading(FALSE)>>
    ELSE LET np == newPages(currentPages(us[k]), pageId) IN
         IF outcome = "throw"
         THEN <<Invoke(userId, pageId), SetLoading(TRUE),
                Assign(userId, np, TRUE), ConsoleError, SetLoading(FALSE)>>
         ELSE <<Invoke(userId, pageId), SetLoading(TRUE),
                Assign(userId, np, FALSE), SetUsers(userId, np), OnSuccess,
                SetLoading(FALSE)>>

\* variant: the new list is written to every row
setUsersUpdater_AllRows(prev, userId, ids) ==
    [k \in 1..Len(prev) |-> [prev[k] EXCEPT !.assignedPages = Some(ids)]]

\* prev.map(u => u.id === userId ? { ...u, assignedPages: newPages } : u)
setUsersUpdater(prev, userId, ids) ==
    [k \in 1..Len(prev) |->
        IF prev[k].id = userId
        THEN [prev[k] EXCEPT !.assignedPages = Some(ids)]
        ELSE prev[k]]

RECURSIVE usersAfter(_, _)
\* the users state after React has applied the queued setUsers updaters
usersAfter(us, calls) ==
    IF calls = <<>> THEN us
    ELSE LET c == Head(calls) IN
         usersAfter(IF c.op = "setUsers" THEN setUsersUpdater(us, c.user, c.ids)
                    ELSE us,
                    Tail(calls))

RECURSIVE loadingAfter(_, _)
\* the loading state after the queued setLoading calls: the last one wins
loadingAfter(l, calls) ==
    IF calls = <<>> THEN l
    ELSE LET c == Head(calls) IN
         loadingAfter(IF c.op = "setLoading" THEN c.flag ELSE l, Tail(calls))

RECURSIVE directoryAfter(_, _, _)
\* the directory after the assignPagesToUser calls among `calls`
directoryAfter(dir, calls, outcome) ==
    IF calls = <<>> THEN dir
    ELSE LET c == Head(calls) IN
         directoryAfter(IF c.op = "assignPagesToUser"
                        THEN assignPagesToUser(dir, c.user, c.ids, outcome)
                        ELSE dir,
                        Tail(calls), outcome)

callsOf(calls, op) == {k \in 1..Len(calls) : calls[k].op = op}

(***************************************************************************)
(* ManageAccessPanel: state machine                                        *)
(***************************************************************************)
CanvasIdle ==
    /\ page = ""
    /\ components = <<>>
    /\ selectedComponent = ""
    /\ isPreviewMode = FALSE
    /\ saveStatus = "saved"
    /\ savingQueued = FALSE
    /\ timer = "none"
    /\ effectDue = FALSE
    /\ now = 0
    /\ audit = <<>>
    /\ lastOp = <<>>
    /\ mutations = 0
    /\ armedStale = FALSE
    /\ savedStale = FALSE
    /\ quiet = TRUE

InitPanel ==
    /\ isOpen = FALSE
    /\ users = <<>>
    /\ pages = <<>>
    /\ searchTerm = <<>>
    /\ filterRole = "all"
    /\ loading = FALSE
    /\ directory \in Directories
    /\ effects = <<>>
    /\ before = Undefined
    /\ failures = 0
    /\ prior = "none"
    /\ openedUsers = <<>>
    /\ assignedIds = {}

Init == InitPanel /\ CanvasIdle

\* useEffect on [isOpen]: the panel is opened and loads users and pages.
\* The model follows the panel from its mount through one opening.
Open ==
    /\ UNCHANGED canvasVars
    /\ ~isOpen
    /\ isOpen' = TRUE
    /\ users' = getAllUsers(directory)
    /\ pages' = getAllPages
    /\ openedUsers' = privileged(getAllUsers(directory))
    /\ effects' = <<GetAllUsers, GetAllPages>>
    /\ before' = Undefined
    /\ prior' = "none"
    /\ UNCHANGED <<searchTerm, filterRole, loading, directory, failures,
                   assignedIds>>

\* onChange of the search input
SetSearchTerm(s) ==
    /\ UNCHANGED canvasVars
    /\ isOpen
    /\ searchTerm' = s
    /\ UNCHANGED <<isOpen, users, pages, filterRole, loading, directory,
                   effects, before, failures, prior, openedUsers, assignedIds>>

\* onChange of the role select
SetFilterRole(r) ==
    /\ UNCHANGED canvasVars
    /\ isOpen
    /\ filterRole' = r
    /\ UNCHANGED <<isOpen, users, pages, searchTerm, loading, directory,
                   effects, before, failures, prior, openedUsers, assignedIds>>

\* the state change of one run of handleToggleAccess
RunToggle(userId, pageId, outcome) ==
    LET calls == handleToggleAccess(users, userId, pageId, outcome) IN
    /\ callsOf(calls, "assignPagesToUser") = {} \/ outcome # "failure"
          \/ failures < MaxFailures
    /\ effects' = calls
    /\ before' = IF find(users, userId) = 0 THEN Undefined
                 ELSE users[find(users, userId)].assignedPages
    /\ prior' = IF callsOf(effects, "setUsers") = {}
                   \/ callsOf(calls, "setUsers") = {} THEN "none"
                ELSE IF effects[1] = calls[1] THEN "same" ELSE "other"
    /\ failures' = IF outcome = "failure"
                   THEN failures + Cardinality(callsOf(calls, "assignPagesToUser"))
                   ELSE failures
    /\ users' = usersAfter(users, calls)
    /\ loading' = loadingAfter(loading, calls)
    /\ directory' = directoryAfter(directory, calls, outcome)
    /\ assignedIds' = assignedIds \cup
                        {calls[k].user : k \in callsOf(calls, "assignPagesToUser")}
    /\ UNCHANGED <<isOpen, pages, searchTerm, filterRole, openedUsers>>

\* a click on the cell of row i of the filtered list and page column j:
\* onClick={() => !isDisabled && handleToggleAccess(user.id, page.id)}
CellClick(i, j, outcome) ==
    /\ UNCHANGED canvasVars
    /\ isOpen
    /\ ~loading
    /\ i \in 1..Len(filteredUsers)
    /\ j \in 1..Len(pages)
    /\ IF isDisabled(filteredUsers[i])
       THEN /\ effects' = <<>>
            /\ UNCHANGED <<isOpen, users, pages, searchTerm, filterRole,
                           loading, directory, before, failures,
                           openedUsers, assignedIds>>
            /\ prior' = "none"
       ELSE RunToggle(filteredUsers[i].id, pages[j].id, outcome)

\* handleToggleAccess called for a user id that the local listing lacks:
\* the external call is not reached, so its outcome plays no part
ToggleMissing(userId, pageId) ==
    /\ UNCHANGED canvasVars
    /\ isOpen
    /\ find(users, userId) = 0
    /\ RunToggle(userId, pageId, "success")

NextPanel ==
    \/ Open
    \/ \E s \in SearchTexts : SetSearchTerm(s)
    \/ \E r \in FilterRoles : SetFilterRole(r)
    \/ \E i \in 1..Len(users), j \in 1..Len(pages), o \in Outcomes : CellClick(i, j, o)
    \/ \E u \in UserIds, p \in PageIds : ToggleMissing(u, p)

Spec == Init /\ [][NextPanel]_vars

(***************************************************************************)
(* LivePageEditor: data                                                    *)
(***************************************************************************)
\* selectedComponent === null
Null == "null"

\* the pages the editor is opened on; an absent embedUrl / htmlContent is ""
Pages ==
    { [type |-> "html", title |-> "Home", embedUrl |-> "", htmlContent |-> "<p>hi</p>"],
      [type |-> "powerbi", title |-> "Sales", embedUrl |-> "https://bi", htmlContent |-> ""],
      [type |-> "text", title |-> "Notes", embedUrl |-> "", htmlContent |-> ""] }

\* component types offered by the toolbar
ComponentTypes == {"html", "text", "button"}

\* a placement Math.random() can produce: the low corner of its range
Placements == {[x |-> 50, y |-> 50]}

\* partial field sets passed to updateComponent by the properties panel
Updates == {[width |-> 80], [content |-> "Hi"]}

\* the clock stops at this value
MaxClock == 1
\* at most this many add / update / delete calls in a run
MaxMutations == 3

\* the component the mount effect creates for the page, if any
defaultComponents(pg) ==
    IF pg.type = "powerbi" /\ pg.embedUrl # ""
    THEN <<[id |-> "powerbi-main", type |-> "powerbi", x |-> 50, y |-> 50,
            width |-> 600, height |-> 400, content |-> pg.title,
            embedUrl |-> pg.embedUrl, htmlContent |-> "",
            backgroundColor |-> "#0078d4"]>>
    ELSE IF pg.type = "spreadsheet" /\ pg.embedUrl # ""
    THEN <<[id |-> "spreadsheet-main", type |-> "spreadsheet", x |-> 50, y |-> 50,
            width |-> 600, height |-> 400, content |-> pg.title,
            embedUrl |-> pg.embedUrl, htmlContent |-> "",
            backgroundColor |-> "#107c41"]>>
    ELSE IF pg.type = "html" /\ pg.htmlContent # ""
    THEN <<[id |-> "html-main", type |-> "html", x |-> 50, y |-> 50,
            width |-> 600, height |-> 400, content |-> pg.title,
            embedUrl |-> "", htmlContent |-> pg.htmlContent,
            backgroundColor |-> "#6b46c1"]>>
    ELSE <<>>

\* `${type.charAt(0).toUpperCase() + type.slice(1)} Component`
defaultContent(type) ==
    IF type = "html" THEN "Html Component"
    ELSE IF type = "text" THEN "Text Component"
    ELSE IF type = "button" THEN "Button Component"
    ELSE IF type = "powerbi" THEN "Powerbi Component"
    ELSE IF type = "spreadsheet" THEN "Spreadsheet Component"
    ELSE "Image Component"

\* variant: a text component gets the width of the other types
defaultWidth_TextWide(type) == IF type = "button" THEN 120 ELSE 300

defaultWidth(type) == IF type = "button" THEN 120 ELSE IF type = "text" THEN 200 ELSE 300
defaultHeight(type) == IF type = "button" THEN 40 ELSE IF type = "text" THEN 60 ELSE 200

defaultBackground(type) ==
    IF type = "powerbi" THEN "#0078d4"
    ELSE IF type = "spreadsheet" THEN "#107c41"
    ELSE IF type = "html" THEN "#6b46c1"
    ELSE IF type = "image" THEN "#f59e0b"
    ELSE IF type = "button" THEN "#3b82f6"
    ELSE "#6b7280"

\* the component addComponent(type) builds at time t with placement pl
newComponent(type, t, pl) ==
    [id |-> ToString(t), type |-> type, x |-> pl.x, y |-> pl.y,
     width |-> defaultWidth(type), height |-> defaultHeight(type),
     content |-> defaultContent(type), embedUrl |-> "", htmlContent |-> "",
     backgroundColor |-> defaultBackground(type)]

\* { ...comp, ...updates }
merge(comp, updates) ==
    [f \in DOMAIN comp |-> IF f \in DOMAIN updates THEN updates[f] ELSE comp[f]]

\* variant: the fields are written to every component
updateComponents_All(prev, id, updates) ==
    [k \in 1..Len(prev) |-> merge(prev[k], updates)]

\* prev.map((comp) => (comp.id === id ? { ...comp, ...updates } : comp))
updateComponents(prev, id, updates) ==
    [k \in 1..Len(prev) |-> IF prev[k].id = id THEN merge(prev[k], updates) ELSE prev[k]]

\* variant: only the first component with the id is removed
deleteComponents_FirstOnly(prev, id) ==
    IF \A k \in 1..Len(prev) : prev[k].id # id THEN prev
    ELSE LET f == CHOOSE k \in 1..Len(prev) :
                    prev[k].id = id /\ \A j \in 1..(k - 1) : prev[j].id # id
         IN  SubSeq(prev, 1, f - 1) \o SubSeq(prev, f + 1, Len(prev))

\* prev.filter((comp) => comp.id !== id)
deleteComponents(prev, id) ==
    FilterSeq(prev, {k \in 1..Len(prev) : prev[k].id # id})

(***************************************************************************)
(* LivePageEditor: state machine                                           *)
(***************************************************************************)
PanelIdle ==
    /\ isOpen = FALSE
    /\ users = <<>>
    /\ pages = <<>>
    /\ searchTerm = <<>>
    /\ filterRole = "all"
    /\ loading = FALSE
    /\ directory = <<>>
    /\ effects = <<>>
    /\ before = Undefined
    /\ failures = 0
    /\ prior = "none"
    /\ openedUsers = <<>>
    /\ assignedIds = {}

\* the editor after mounting on a page: the mount effect has set the
\* default components, nothing is selected, nothing awaits saving
InitCanvas ==
    /\ page \in Pages
    /\ components = defaultComponents(page)
    /\ selectedComponent = Null
    /\ isPreviewMode = FALSE
    /\ saveStatus = "saved"
    /\ savingQueued = FALSE
    /\ timer = "none"
    /\ effectDue = FALSE
    /\ now = 0
    /\ audit = <<>>
    /\ lastOp = <<>>
    /\ mutations = 0
    /\ armedStale = FALSE
    /\ savedStale = FALSE
    /\ quiet = TRUE

\* the last mutation call: its name and arguments
Op(op, id, type, updates) == <<[op |-> op, id |-> id, type |-> type, updates |-> updates]>>

\* if (components.length > 0 && saveStatus === "unsaved")
autoSaveDue(comps, status) == Len(comps) > 0 /\ status = "unsaved"

\* the timer of the previous effect run stays pending: no cleanup
cleanup_Missing(pending) == pending

\* return () => clearTimeout(timer): the timer of the previous effect run
\* once its cleanup has been called
cleanup(pending) == "none"

\* One run of the auto-save effect for a render of (comps, status): the
\* cleanup of the previous run, then the body, which arms the timer and
\* queues setSaveStatus("saving") when a save is due.  `mutated` tells
\* whether the render comes from an add / update / delete call, `queued`
\* what becomes of a setSaveStatus("saving") queued earlier.
runAutoSaveEffect(comps, status, mutated, queued) ==
    LET kept == cleanup(timer) IN
    /\ timer' = IF kept # "none" THEN kept
                 ELSE IF autoSaveDue(comps, status) THEN "armed" ELSE "none"
    /\ savingQueued' = (queued \/ autoSaveDue(comps, status))
    /\ armedStale' = (kept # "none" /\ (armedStale \/ mutated))
    /\ effectDue' = FALSE

\* An add / update / delete click is a discrete event: React renders the new
\* state and runs the effects of that render before the event's task ends.
\* The handler's setSaveStatus("unsaved") overrides a queued "saving".
commitMutation(comps) == runAutoSaveEffect(comps, "unsaved", TRUE, FALSE)

\* time passes: Date.now() advances
Tick ==
    /\ UNCHANGED panelVars
    /\ now < MaxClock
    /\ now' = now + 1
    /\ UNCHANGED <<page, components, selectedComponent, isPreviewMode,
                   saveStatus, savingQueued, timer, effectDue, audit, lastOp,
                   mutations, armedStale, savedStale, quiet>>

\* the delay of setTimeout(handleAutoSave, 1000) passes with nothing else
\* happening: an armed timer becomes due
Wait ==
    /\ UNCHANGED panelVars
    /\ now' = IF now < MaxClock THEN now + 1 ELSE now
    /\ timer' = IF timer = "armed" THEN "due" ELSE timer
    /\ quiet' = TRUE
    /\ UNCHANGED <<page, components, selectedComponent, isPreviewMode,
                   saveStatus, savingQueued, effectDue, audit, lastOp,
                   mutations, armedStale, savedStale>>

\* the parent hands the editor another page: useEffect on [page]
PageChange(pg) ==
    /\ UNCHANGED panelVars
    /\ pg # page
    /\ page' = pg
    /\ components' = defaultComponents(pg)
    /\ effectDue' = TRUE
    /\ UNCHANGED <<selectedComponent, isPreviewMode, saveStatus, savingQueued,
                   timer, now, audit, lastOp, mutations, armedStale,
                   savedStale, quiet>>

\* a toolbar button or a drop on the canvas: addComponent(type)
AddComponent(type, pl) ==
    /\ UNCHANGED panelVars
    /\ mutations < MaxMutations
    /\ components' = Append(components, newComponent(type, now, pl))
    /\ saveStatus' = "unsaved"
    /\ audit' = <<"live_edit_add">>
    /\ lastOp' = Op("addComponent", "", type, <<>>)
    /\ mutations' = mutations + 1
    /\ quiet' = FALSE
    /\ commitMutation(components')
    /\ UNCHANGED <<page, selectedComponent, isPreviewMode, now, savedStale>>

\* updateComponent(id, updates)
updateComponent(id, updates) ==
    /\ UNCHANGED panelVars
    /\ mutations < MaxMutations
    /\ components' = updateComponents(components, id, updates)
    /\ saveStatus' = "unsaved"
    /\ audit' = <<>>
    /\ lastOp' = Op("updateComponent", id, "", updates)
    /\ mutations' = mutations + 1
    /\ quiet' = FALSE
    /\ commitMutation(components')
    /\ UNCHANGED <<page, selectedComponent, isPreviewMode, now, savedStale>>

\* an input of the properties panel: updateComponent(selectedComponent, updates)
UpdateComponent(updates) ==
    /\ ~isPreviewMode
    /\ selectedComponent # Null
    /\ \E k \in 1..Len(components) : components[k].id = selectedComponent
    /\ updateComponent(selectedComponent, updates)

\* updateComponent called with an id that no component of the list has
UpdateMissing(id, updates) ==
    /\ \A k \in 1..Len(components) : components[k].id # id
    /\ updateComponent(id, updates)

\* the delete button shown on the selected component: deleteComponent(id)
DeleteComponent(k) ==
    /\ UNCHANGED panelVars
    /\ mutations < MaxMutations
    /\ ~isPreviewMode
    /\ components[k].id = selectedComponent
    /\ components' = deleteComponents(components, components[k].id)
    /\ selectedComponent' = Null
    /\ saveStatus' = "unsaved"
    /\ audit' = <<"live_edit_delete">>
    /\ lastOp' = Op("deleteComponent", components[k].id, "", <<>>)
    /\ mutations' = mutations + 1
    /\ quiet' = FALSE
    /\ commitMutation(components')
    /\ UNCHANGED <<page, isPreviewMode, now, savedStale>>

\* a click on a component: !isPreviewMode && setSelectedComponent(component.id)
SelectClick(k) ==
    /\ UNCHANGED panelVars
    /\ selectedComponent' = IF isPreviewMode THEN selectedComponent
                            ELSE components[k].id
    /\ audit' = <<>>
    /\ UNCHANGED <<page, components, isPreviewMode, saveStatus, savingQueued,
                   timer, effectDue, now, lastOp, mutations, armedStale,
                   savedStale, quiet>>

togglePreview ==
    /\ UNCHANGED panelVars
    /\ isPreviewMode' = ~isPreviewMode
    /\ selectedComponent' = Null
    /\ audit' = <<"live_edit_preview">>
    /\ UNCHANGED <<page, components, saveStatus, savingQueued, timer,
                   effectDue, now, lastOp, mutations, armedStale, savedStale,
                   quiet>>

\* React re-renders with the setSaveStatus("saving") the effect queued; the
\* dependencies [components, saveStatus] have changed, so the effect is due
\* again
RenderSaving ==
    /\ UNCHANGED panelVars
    /\ savingQueued
    /\ savingQueued' = FALSE
    /\ saveStatus' = "saving"
    /\ effectDue' = TRUE
    /\ UNCHANGED <<page, components, selectedComponent, isPreviewMode, timer,
                   now, audit, lastOp, mutations, armedStale, savedStale,
                   quiet>>

\* React runs the auto-save effect for a render that no add / update /
\* delete click caused (the saving re-render, a new page, a completed save)
AutoSaveEffect ==
    /\ UNCHANGED panelVars
    /\ effectDue
    /\ runAutoSaveEffect(components, saveStatus, FALSE, savingQueued)
    /\ UNCHANGED <<page, components, selectedComponent, isPreviewMode,
                   saveStatus, now, audit, lastOp, mutations, savedStale,
                   quiet>>

\* the due timer fires and calls handleAutoSave; its setSaveStatus("saved")
\* comes after a "saving" still queued
handleAutoSave ==
    /\ UNCHANGED panelVars
    /\ timer = "due"
    /\ timer' = "none"
    /\ saveStatus' = "saved"
    /\ savingQueued' = FALSE
    /\ audit' = <<"live_edit_save">>
    /\ effectDue' = (effectDue \/ saveStatus # "saved")
    /\ savedStale' = armedStale
    /\ armedStale' = FALSE
    /\ UNCHANGED <<page, components, selectedComponent, isPreviewMode, now,
                   lastOp, mutations, quiet>>

\* ids updateComponent can be called with that no component has
GhostIds == {"ghost"}

\* the steps of an editing session on one page
NextSession ==
    \/ Tick
    \/ Wait
    \/ \E t \in ComponentTypes, pl \in Placements : AddComponent(t, pl)
    \/ \E u \in Updates : UpdateComponent(u)
    \/ \E g \in GhostIds, u \in Updates : UpdateMissing(g, u)
    \/ \E k \in 1..Len(components) : DeleteComponent(k)
    \/ \E k \in 1..Len(components) : SelectClick(k)
    \/ togglePreview
    \/ RenderSaving
    \/ AutoSaveEffect
    \/ handleAutoSave

NextCanvas ==
    \/ NextSession
    \/ \E pg \in Pages : PageChange(pg)

InitEditor == InitCanvas /\ PanelIdle

SpecCanvas == InitEditor /\ [][NextCanvas]_vars

\* an editing session on one page in which React runs every due render and
\* effect, time goes on, and a due timer that is not cleared fires
SpecCanvasFair ==
    /\ InitEditor
    /\ [][NextSession]_vars
    /\ WF_vars(Wait)
    /\ WF_vars(RenderSaving)
    /\ WF_vars(AutoSaveEffect)
    /\ WF_vars(handleAutoSave)

(***************************************************************************)
(* Vocabulary of the properties                                            *)
(***************************************************************************)
\* the assigned pages of a user as a set; an absent list counts as empty
AssignedSet(user) ==
    IF user.assignedPages.defined
    THEN {user.assignedPages.ids[i] : i \in 1..Len(user.assignedPages.ids)}
    ELSE {}

IdsOf(us) == {us[k].id : k \in 1..Len(us)}

\* the listing after a toggle of cell (userId, pageId) whose external call succeeds
toggled(us, userId, pageId) ==
    usersAfter(us, handleToggleAccess(us, userId, pageId, "success"))

\* the last panel event ran handleToggleAccess
LastWasToggle == effects # <<>> /\ effects[1].op = "handleToggleAccess"
LastUser == effects[1].user
LastPage == effects[1].ids[1]
\* ... for a listed user
LastWasListedToggle == LastWasToggle /\ LastUser \in IdsOf(users)
\* ... and its external call threw
LastThrew == \E k \in callsOf(effects, "assignPagesToUser") : effects[k].flag

\* the list a user had before the last toggle ([] when absent)
BeforeList == IF before.defined THEN before.ids ELSE <<>>
BeforeSet == {BeforeList[i] : i \in 1..Len(BeforeList)}

\* the n-th index of list l that does not hold page p
NthOther(l, p, n) ==
    CHOOSE i \in 1..Len(l) :
        /\ l[i] # p
        /\ Cardinality({m \in 1..i : l[m] # p}) = n

(***************************************************************************)
(* C1: the effective access of every listed user u on every page p is      *)
(* (u is admin or developer) or (p is in u's assigned pages); an absent    *)
(* list counts as empty.                                                   *)
(***************************************************************************)
C1_EffectiveAccess ==
    \A k \in 1..Len(users) : \A p \in PageIds :
        getUserPageAccess(users, users[k].id, p)
            = (\/ users[k].role \in {"admin", "developer"}
               \/ p \in AssignedSet(users[k]))

\* a developer without an assigned list next to a user who was just granted a page
C1_Witness ==
    /\ \E k \in 1..Len(users) :
          users[k].role = "developer" /\ ~users[k].assignedPages.defined
    /\ \E k \in 1..Len(users) :
          /\ users[k].role = "user"
          /\ LastWasListedToggle /\ LastUser = users[k].id
          /\ LastPage \in AssignedSet(users[k])

(***************************************************************************)
(* C2: cell clicks never change the assigned pages of an admin or          *)
(* developer row (they stay as loaded when the panel was opened) and the   *)
(* external assignment call is never made with such a user's id.           *)
(***************************************************************************)
C2_PrivilegedRowsUntouched ==
    /\ privileged(users) = openedUsers
    /\ \A k \in 1..Len(users) :
          users[k].role \in {"admin", "developer"} => users[k].id \notin assignedIds

\* a click on a disabled cell (no calls made) after some toggle went through
C2_Witness ==
    /\ isOpen
    /\ effects = <<>>
    /\ assignedIds # {}
    /\ \E k \in 1..Len(filteredUsers) :
          filteredUsers[k].role = "developer" /\ AssignedSet(filteredUsers[k]) # {}

(***************************************************************************)
(* C3: toggling the same cell of a role = user row twice in succession     *)
(* returns the user's assigned pages, as a set, to what they were.         *)
(***************************************************************************)
C3_ToggleTwiceRestores ==
    \A k \in 1..Len(users) : \A p \in PageIds :
        users[k].role = "user" =>
            AssignedSet(toggled(toggled(users, users[k].id, p), users[k].id, p)[k])
                = AssignedSet(users[k])

\* the last two toggles hit the same cell, which now holds the page again
C3_Witness ==
    /\ prior = "same"
    /\ LastWasListedToggle
    /\ \E k \in 1..Len(users) :
          /\ users[k].id = LastUser
          /\ users[k].role = "user"
          /\ LastPage \in AssignedSet(users[k])

(***************************************************************************)
(* C4: a toggle of page p on a role = user row appends p as the last       *)
(* element when the list lacks p, and otherwise removes every occurrence   *)
(* of p, the other entries keeping their relative order.                   *)
(***************************************************************************)
C4_NewListShape ==
    LastWasListedToggle =>
        \A c \in callsOf(effects, "assignPagesToUser") \cup callsOf(effects, "setUsers") :
            LET new == effects[c].ids
                old == BeforeList
                p == LastPage
            IN  IF p \notin BeforeSet
                THEN /\ Len(new) = Len(old) + 1
                     /\ new[Len(new)] = p
                     /\ \A i \in 1..Len(old) : new[i] = old[i]
                ELSE /\ Len(new) = Cardinality({i \in 1..Len(old) : old[i] # p})
                     /\ \A n \in 1..Len(new) : new[n] = old[NthOther(old, p, n)]

\* a toggle that removed a page listed twice, with another page in between
C4_Witness ==
    /\ LastWasListedToggle
    /\ callsOf(effects, "setUsers") # {}
    /\ Cardinality({i \in 1..Len(BeforeList) : BeforeList[i] = LastPage}) = 2
    /\ Len(BeforeList) = 3

(***************************************************************************)
(* C5: each listed user's local assigned set equals the one the directory  *)
(* holds, also after an external call that failed.                         *)
(***************************************************************************)
C5_LocalMatchesPersisted ==
    \A k \in 1..Len(users) : \A d \in 1..Len(directory) :
        users[k].id = directory[d].id =>
            AssignedSet(users[k]) = AssignedSet(directory[d])

(***************************************************************************)
(* C6: a toggle on a listed user calls assignPagesToUser once, with the    *)
(* user's id and the complete new list, then updates the local entry to    *)
(* that list, then signals onSuccess once; onSuccess never precedes the    *)
(* external call and is not signalled when the external call threw.        *)
(***************************************************************************)
C6_EffectOrder ==
    LastWasListedToggle =>
        LET a == callsOf(effects, "assignPagesToUser")
            u == callsOf(effects, "setUsers")
            n == callsOf(effects, "onSuccess")
        IN  /\ Cardinality(a) = 1
            /\ \A i \in a :
                  /\ effects[i].user = LastUser
                  /\ {effects[i].ids[j] : j \in 1..Len(effects[i].ids)}
                        = IF LastPage \in BeforeSet
                          THEN BeforeSet \ {LastPage}
                          ELSE BeforeSet \cup {LastPage}
            /\ \A i \in n : \A j \in a : j < i
            /\ IF LastThrew
               THEN n = {} /\ u = {}
               ELSE /\ Cardinality(u) = 1
                    /\ Cardinality(n) = 1
                    /\ \A i \in a : \A j \in u : \A m \in n :
                          /\ i < j /\ j < m
                          /\ effects[j].user = LastUser
                          /\ effects[j].ids = effects[i].ids
                          /\ \A k \in 1..Len(users) :
                                users[k].id = LastUser =>
                                    users[k].assignedPages = Some(effects[i].ids)

\* a toggle that went through and sent a list of two pages
C6_Witness ==
    /\ LastWasListedToggle
    /\ ~LastThrew
    /\ \E i \in callsOf(effects, "assignPagesToUser") : Len(effects[i].ids) = 2
    /\ callsOf(effects, "onSuccess") # {}

(***************************************************************************)
(* C7: a toggle for a user id that the listing lacks is a silent no-op: no *)
(* exception, no external call, no onSuccess, every user's assigned pages  *)
(* unchanged, loading false on return.                                     *)
(***************************************************************************)
C7_MissingUserNoOp ==
    [][ (/\ effects' # <<>>
         /\ effects'[1].op = "handleToggleAccess"
         /\ effects'[1].user \notin IdsOf(users))
        => /\ callsOf(effects', "assignPagesToUser") = {}
           /\ callsOf(effects', "onSuccess") = {}
           /\ callsOf(effects', "console.error") = {}
           /\ users' = users
           /\ directory' = directory
           /\ assignedIds' = assignedIds
           /\ loading' = FALSE ]_vars

\* the handler ran for the unlisted id u9 after a real toggle
C7_Witness ==
    /\ LastWasToggle
    /\ LastUser = "u9"
    /\ users # <<>>
    /\ assignedIds # {}
    /\ ~loading

(***************************************************************************)
(* C8: toggles of two different cells of role = user rows commute: either  *)
(* order leaves every user with the same assigned set, and each toggle's   *)
(* effect on its own cell survives the other.                              *)
(***************************************************************************)
C8_TogglesCommute ==
    \A k1, k2 \in 1..Len(users) : \A p1, p2 \in PageIds :
        (/\ users[k1].role = "user" /\ users[k2].role = "user"
         /\ (k1 < k2 \/ (k1 = k2 /\ p1 # p2)))
        => LET u1 == users[k1].id
               u2 == users[k2].id
               ab == toggled(toggled(users, u1, p1), u2, p2)
               ba == toggled(toggled(users, u2, p2), u1, p1)
           IN  /\ \A k \in 1..Len(users) : AssignedSet(ab[k]) = AssignedSet(ba[k])
               /\ (p1 \in AssignedSet(ab[k1])) = (p1 \notin AssignedSet(users[k1]))
               /\ (p2 \in AssignedSet(ab[k2])) = (p2 \notin AssignedSet(users[k2]))

\* two toggles in a row on different cells, with two role = user rows listed
C8_Witness ==
    /\ prior = "other"
    /\ LastWasListedToggle
    /\ \A k \in 1..Len(users) : users[k].role = "user"
    /\ \A k \in 1..Len(users) : AssignedSet(users[k]) # {}

(***************************************************************************)
(* C9: the filtered list is exactly the users whose name or username       *)
(* contains the search text, ignoring case, and whose role passes the role *)
(* filter, in the order of the loaded list and without repetition; the     *)
(* empty search text matches everyone.                                     *)
(***************************************************************************)
\* s contains t when letter case is ignored: compared in upper case
UpperChar(c) ==
    IF c = "a" THEN "A"
    ELSE IF c = "b" THEN "B"
    ELSE IF c = "n" THEN "N"
    ELSE IF c = "o" THEN "O"
    ELSE c

ContainsIgnoringCase(s, t) ==
    \E off \in 0..(Len(s) - Len(t)) :
        \A i \in 1..Len(t) : UpperChar(s[off + i]) = UpperChar(t[i])

Wanted(user) ==
    /\ \/ ContainsIgnoringCase(user.name, searchTerm)
       \/ ContainsIgnoringCase(user.username, searchTerm)
    /\ filterRole = "all" \/ user.role = filterRole

C9_FilteredUsers ==
    /\ \A i \in 1..Len(filteredUsers) :
          \E k \in 1..Len(users) : users[k] = filteredUsers[i] /\ Wanted(users[k])
    /\ \A k \in 1..Len(users) :
          Wanted(users[k]) => \E i \in 1..Len(filteredUsers) : filteredUsers[i] = users[k]
    /\ \A i, j \in 1..Len(filteredUsers) :
          i < j => find(users, filteredUsers[i].id) < find(users, filteredUsers[j].id)
    /\ (searchTerm = <<>> /\ filterRole = "all") => filteredUsers = users

\* an upper-case search text that matches one user by name and the other by username
C9_Witness ==
    /\ isOpen
    /\ searchTerm = <<"A", "N">>
    /\ filterRole = "user"
    /\ Len(users) = 2
    /\ Len(filteredUsers) = 1
    /\ filteredUsers[1] = users[2]

(***************************************************************************)
(* C10: save-status lifecycle.  After a mutation the status is unsaved;    *)
(* once the mutations have stopped the status goes through saving and      *)
(* eventually becomes saved.                                               *)
(***************************************************************************)
C10_EventuallySaved == (saveStatus = "unsaved") ~> (saveStatus = "saved")


(***************************************************************************)
(* LivePageEditor: properties                                              *)
(***************************************************************************)
\* the last add / update / delete call, once there has been one
Called(op) == lastOp # <<>> /\ lastOp[1].op = op

\* this step is a call of the mutation handler `op`
IsCall(op) == mutations' = mutations + 1 /\ lastOp'[1].op = op

\* the positions of the components with this id
Holders(comps, id) == {k \in 1..Len(comps) : comps[k].id = id}

\* C11: calls of updateComponent that follow one another within the debounce
\* delay lead to a single change of the save status to saving, and the
\* status changes to saving only once the delay has passed since the last
\* add / update / delete call.
C11_SavingOnlyAfterDebounce ==
    [][(saveStatus # "saving" /\ saveStatus' = "saving") => quiet]_vars

\* C12: whenever the save status is saved, no add / update / delete call has
\* been applied after the start of the save that completed last: a call
\* that arrives while a save is in flight cancels that save.
C12_SavedCoversMutations == saveStatus = "saved" => ~savedStale

\* a save has completed after several calls, the last of them an update
C12_Witness ==
    /\ Called("updateComponent")
    /\ mutations >= 2
    /\ audit = <<"live_edit_save">>
    /\ saveStatus = "saved"

\* C13: the ids of the components of the list are pairwise distinct in every
\* reachable state, also for components added with no time passing between.
C13_UniqueIds ==
    \A i, j \in 1..Len(components) :
        i # j => components[i].id # components[j].id

\* C14: addComponent(type) appends exactly one component as the last
\* element and leaves the others unchanged and in place; the new component
\* is 120 by 40 for a button, 200 by 60 for a text and 300 by 200
\* otherwise; the status becomes unsaved and one add audit record is emitted.
C14_AddAppendsOne ==
    [][IsCall("addComponent") =>
          LET type == lastOp'[1].type
              new == components'[Len(components')]
          IN  /\ Len(components') = Len(components) + 1
              /\ SubSeq(components', 1, Len(components)) = components
              /\ new.type = type
              /\ <<new.width, new.height>> =
                    IF type = "button" THEN <<120, 40>>
                    ELSE IF type = "text" THEN <<200, 60>>
                    ELSE <<300, 200>>
              /\ saveStatus' = "unsaved"
              /\ audit' = <<"live_edit_add">>]_vars

\* a text has just been added behind other components
C14_Witness ==
    /\ Called("addComponent")
    /\ lastOp[1].type = "text"
    /\ Len(components) >= 2
    /\ components[Len(components)].type = "text"
    /\ components[Len(components)].width = 200
    /\ saveStatus = "unsaved"

\* C15: deleteComponent(id) removes every component with that id and no
\* other, clears the selection, sets the status to unsaved and emits one
\* delete audit record; addComponent("text") on an empty list followed by
\* the deletion of the new component leaves an empty list and no selection.
C15_DeleteRemovesId ==
    [][IsCall("deleteComponent") =>
          LET id == lastOp'[1].id IN
          /\ components' = SelectSeq(components, LAMBDA c : c.id # id)
          /\ selectedComponent' = Null
          /\ saveStatus' = "unsaved"
          /\ audit' = <<"live_edit_delete">>]_vars

\* the delete button of one of two components with the same id has removed
\* both and left the component with another id
C15_Witness ==
    /\ Called("deleteComponent")
    /\ mutations = 3
    /\ Len(components) = 1
    /\ components[1].id # lastOp[1].id
    /\ selectedComponent = Null
    /\ saveStatus = "unsaved"

\* C16: updateComponent(id, fields) sets exactly the given fields of the
\* components whose id is id and leaves every other component, the length
\* and the order of the list unchanged; with no such component the list
\* keeps its contents; the status becomes unsaved, the selection and the
\* preview mode stay as they are.
C16_UpdateFrame ==
    [][IsCall("updateComponent") =>
          LET id == lastOp'[1].id
              fields == lastOp'[1].updates
          IN  /\ Len(components') = Len(components)
              /\ \A k \in 1..Len(components) :
                    IF components[k].id = id
                    THEN /\ DOMAIN components'[k] = DOMAIN components[k]
                         /\ \A f \in DOMAIN components[k] :
                               components'[k][f] =
                                  IF f \in DOMAIN fields THEN fields[f]
                                  ELSE components[k][f]
                    ELSE components'[k] = components[k]
              /\ Holders(components, id) = {} => components' = components
              /\ saveStatus' = "unsaved"
              /\ selectedComponent' = selectedComponent
              /\ isPreviewMode' = isPreviewMode]_vars

\* an update of the selected component has set its width next to an
\* untouched component, and the last update named an id that no component has
C16_Witness ==
    /\ Called("updateComponent")
    /\ Holders(components, lastOp[1].id) = {}
    /\ Len(components) = 2
    /\ components[1].width = 80
    /\ components[2].width # 80
    /\ saveStatus = "unsaved"

\* C17: at most one component is selected, and in preview mode no component
\* is selected.
C17_SingleSelection ==
    /\ Cardinality(Holders(components, selectedComponent)) <= 1
    /\ isPreviewMode => selectedComponent = Null

\* C19: selectedComponent is null or the id of a component of the list.
C19_SelectionPresent ==
    selectedComponent = Null \/ Holders(components, selectedComponent) # {}

(***************************************************************************)
(* C18: a toggle of cell (u, p) that updates the local listing inverts the *)
(* effective access of (u, p) and leaves the effective access of every     *)
(* other (user, page) pair, the page list, the search text and the role    *)
(* filter as they were.                                                    *)
(***************************************************************************)
C18_ToggleFrame ==
    [][(effects' # effects /\ LastWasListedToggle'
            /\ callsOf(effects', "setUsers") # {}) =>
          /\ pages' = pages
          /\ searchTerm' = searchTerm
          /\ filterRole' = filterRole
          /\ IdsOf(users') = IdsOf(users)
          /\ \A v \in IdsOf(users), q \in PageIds :
                getUserPageAccess(users', v, q) =
                   IF v = LastUser' /\ q = LastPage'
                   THEN ~getUserPageAccess(users, v, q)
                   ELSE getUserPageAccess(users, v, q)]_vars

\* the last toggle updated a row that holds another page as well, while a
\* search text and a role filter are set
C18_Witness ==
    /\ LastWasListedToggle
    /\ callsOf(effects, "setUsers") # {}
    /\ searchTerm # <<>>
    /\ filterRole # "all"
    /\ \E k \in 1..Len(users) :
          /\ users[k].id = LastUser
          /\ AssignedSet(users[k]) \ {LastPage} # {}

====
